---- MODULE Spec2Model ----
(***************************************************************************)
(* AimCallback (python/ray/tune/logger/aim.py): the trial -> aim Run       *)
(* registry and the metric / hyperparameter forwarding of the three        *)
(* lifecycle handlers log_trial_start, log_trial_result, log_trial_end.    *)
(*                                                                         *)
(* Python values are records [ty, v, nan, items]: ty is the runtime type,  *)
(* v an integer payload (numbers in tenths, strings and lists by an        *)
(* integer code / their length, code 0 being the empty string), nan marks  *)
(* a float NaN, items holds the                                            *)
(* entries of a dict.  A dict is a sequence of <<key, value>> pairs with   *)
(* distinct keys, in insertion order.                                      *)
(***************************************************************************)
EXTENDS Integers, Sequences, FiniteSets, TLC

VARIABLES as_multirun, metrics, trial_run, runs, phase, ordered,
          op, arg_trial, result_in, result_out, raised, calls,
          hparams_in, hparams_scrubbed, hparams_removed, scrub_pc,
          put_records, report_log, report_outcome

\* AimCallback and the last handler call
aim_vars == <<as_multirun, metrics, trial_run, runs, phase, ordered,
              op, arg_trial, result_in, result_out, raised, calls>>
\* a direct call of the hyperparameter scrubber: its argument and its results
scrub_vars == <<hparams_in, hparams_scrubbed, hparams_removed, scrub_pc>>
\* DBReporter.report_result: the put_record calls, the log and the outcome
db_vars == <<put_records, report_log, report_outcome>>

vars == <<aim_vars, scrub_vars, db_vars>>

\* ------------------------------------------------------------------ bounds
NumTrials == 2
MaxRuns == 2
MaxCloses == 2
MaxParams == 2

\* ------------------------------------------------------------ python values
Val(ty, v) == [ty |-> ty, v |-> v, nan |-> FALSE, items |-> <<>>]
None == Val("NoneType", 0)
PyInt(n) == Val("int", n)
PyFloat(n) == Val("float", n)
NaN == [ty |-> "float", v |-> 0, nan |-> TRUE, items |-> <<>>]
PyStr(code) == Val("str", code)
PyList(len) == Val("list", len)
Dict(items) == [ty |-> "dict", v |-> 0, nan |-> FALSE, items |-> items]

\* ------------------------------------------------------------- python dicts
Keys(d) == {d[i][1] : i \in DOMAIN d}
Has(d, k) == k \in Keys(d)
Get(d, k) == d[CHOOSE i \in DOMAIN d : d[i][1] = k][2]
Del(d, k) == SelectSeq(d, LAMBDA p : p[1] # k)
Put(d, k, v) ==
    IF Has(d, k)
    THEN [i \in DOMAIN d |-> IF d[i][1] = k THEN <<k, v>> ELSE d[i]]
    ELSE Append(d, <<k, v>>)

RECURSIVE DelAll(_, _)
DelAll(d, ks) == IF ks = <<>> THEN d ELSE DelAll(Del(d, Head(ks)), Tail(ks))

\* dict.update(other)
RECURSIVE Update(_, _)
Update(d, other) ==
    IF other = <<>> THEN d
    ELSE Update(Put(d, Head(other)[1], Head(other)[2]), Tail(other))

\* dict.pop(k, None): the value (or None) and the dict without k
Pop(d, k) == [value |-> IF Has(d, k) THEN Get(d, k) ELSE None, rest |-> Del(d, k)]

\* the class of a value and the builtin classes it derives from
Bases(ty) ==
    CASE ty = "bool" -> {"bool", "int"}
      [] ty = "np.float64" -> {"np.float64", "float"}
      [] OTHER -> {ty}
isinstance(value, types) == Bases(value.ty) \cap types # {}

\* truth value of a python object, as `or` tests it
Truthy(value) ==
    CASE value.ty = "NoneType" -> FALSE
      [] value.ty \in {"int", "bool", "float", "np.float32", "np.float64",
                       "np.int32", "np.int64", "np.bool8"} -> value.nan \/ value.v # 0
      [] value.ty = "list" -> value.v > 0
      [] value.ty = "str" -> value.v # 0
      [] value.ty = "dict" -> value.items # <<>>
      [] OTHER -> TRUE

\* ------------------------------------------------------------ flatten_dict
Prefixed(key, delimiter, d) ==
    [i \in DOMAIN d |-> <<key \o delimiter \o d[i][1], d[i][2]>>]

RECURSIVE flatten_dict(_, _)
flatten_dict(dt, delimiter) ==
    IF dt = <<>> THEN <<>>
    ELSE LET key == Head(dt)[1]
             value == Head(dt)[2]
             rest == flatten_dict(Tail(dt), delimiter)
         IN IF value.ty = "dict"
            THEN Prefixed(key, delimiter, flatten_dict(value.items, delimiter)) \o rest
            ELSE <<Head(dt)>> \o rest

\* --------------------------------------------------------------- constants
TIMESTEPS_TOTAL == "timesteps_total"
TRAINING_ITERATION == "training_iteration"
TIME_TOTAL_S == "time_total_s"
VALID_SUMMARY_TYPES == {"int", "float", "np.float32", "np.float64", "np.int32", "np.int64"}
\* variant: float is missing from the tuple of primitive types
ValidHparamsWithoutFloat == {"str", "bool", "int", "list", "NoneType"}

VALID_HPARAMS == {"str", "bool", "int", "float", "list", "NoneType"}
VALID_NP_HPARAMS == {"np.bool8", "np.float32", "np.float64", "np.int32", "np.int64"}
np_isnan(value) == value.nan

\* ndarray.tolist() / numpy scalar .tolist(): the native python value
tolist(value) ==
    CASE value.ty \in {"np.float32", "np.float64"} -> [value EXCEPT !.ty = "float"]
      [] value.ty \in {"np.int32", "np.int64"} -> [value EXCEPT !.ty = "int"]
      [] value.ty = "np.bool8" -> [value EXCEPT !.ty = "bool"]
      [] OTHER -> value

\* ------------------------------------------------------------------ trials
Trials == 1..NumTrials
trial_id(trial) == PyStr(trial)

\* trial.evaluated_params: odd trials carry a nested search space, even
\* trials were given none
evaluated_params(trial) ==
    IF trial % 2 = 1
    THEN << <<"lr", PyFloat(trial)>>,
            <<"name", PyStr(7)>>,
            <<"layers", PyList(2)>>,
            <<"opt", Dict(<< <<"momentum", Val("np.float64", 9)>>,
                             <<"nesterov", Val("np.bool8", 1)>> >>)>>,
            <<"seed", Val("np.int64", 4)>>,
            <<"sampler", Val("object", 0)>> >>
    ELSE <<>>

\* ------------------------------------------------------------ backend calls
Call(o, run) ==
    [op |-> o, run |-> run, name |-> "", value |-> None, step |-> None,
     epoch |-> None, context |-> None]
Track(run, value, epoch, name, step, context) ==
    [op |-> "track", run |-> run, name |-> name, value |-> value, step |-> step,
     epoch |-> epoch, context |-> context]
SetItem(run, key, value) == [Call("setitem", run) EXCEPT !.name = key, !.value = value]
NewRun == [closes |-> 0, trial_id |-> None, hparams |-> None]

\* ---------------------------------------------------------------- __init__
MetricsOptions == { <<>>, <<"acc", "loss">>, <<"a/b">> }

\* no direct call of the scrubber was made
ScrubIdle ==
    /\ hparams_in = <<>>
    /\ hparams_scrubbed = <<>>
    /\ hparams_removed = <<>>
    /\ scrub_pc = "idle"

\* no result was reported
ReportIdle ==
    /\ put_records = <<>>
    /\ report_log = <<>>
    /\ report_outcome = "idle"

Init ==
    /\ ScrubIdle
    /\ ReportIdle
    /\ as_multirun \in BOOLEAN
    /\ metrics \in MetricsOptions
    /\ trial_run = <<>>
    /\ runs = <<>>
    /\ phase = [t \in Trials |-> "uncreated"]
    /\ ordered = TRUE
    /\ op = "__init__"
    /\ arg_trial = 0
    /\ result_in = <<>>
    /\ result_out = <<>>
    /\ raised = "none"
    /\ calls = <<>>

\* ------------------------------------------------------------ _log_hparams
\* variant: the update runs the other way, so an as-is entry overwrites the
\* converted one of the same key
LogHparamsPrimitiveWins(params) ==
    LET flat_params == flatten_dict(params, "/")
        scrubbed_params == SelectSeq(flat_params,
                               LAMBDA p : isinstance(p[2], VALID_HPARAMS))
        np_selected == SelectSeq(flat_params,
                               LAMBDA p : isinstance(p[2], VALID_NP_HPARAMS))
        np_params == [i \in DOMAIN np_selected |->
                         <<np_selected[i][1], tolist(np_selected[i][2])>>]
    IN [scrubbed |-> Update(np_params, scrubbed_params),
        removed |-> SelectSeq(flat_params,
                        LAMBDA p : ~isinstance(p[2], VALID_HPARAMS \cup VALID_NP_HPARAMS))]

\* the snapshot stored under "hparams" and the entries reported as removed
_log_hparams(params) ==
    LET flat_params == flatten_dict(params, "/")
        scrubbed_params == SelectSeq(flat_params,
                               LAMBDA p : isinstance(p[2], VALID_HPARAMS))
        np_selected == SelectSeq(flat_params,
                               LAMBDA p : isinstance(p[2], VALID_NP_HPARAMS))
        np_params == [i \in DOMAIN np_selected |->
                         <<np_selected[i][1], tolist(np_selected[i][2])>>]
    IN [scrubbed |-> Update(scrubbed_params, np_params),
        removed |-> SelectSeq(flat_params,
                        LAMBDA p : ~isinstance(p[2], VALID_HPARAMS \cup VALID_NP_HPARAMS))]

\* ---------------------------------------------------------- _get_trial_run
\* variant: the lookup never keys on the trial
GetTrialRunIgnoresTrial(multirun, registry, trial) ==
    IF registry = <<>>
    THEN [raised |-> "IndexError", run |-> 0]
    ELSE [raised |-> "none", run |-> registry[1][2]]

_get_trial_run(multirun, registry, trial) ==
    IF ~multirun
    THEN IF registry = <<>>
         THEN [raised |-> "IndexError", run |-> 0]
         ELSE [raised |-> "none", run |-> registry[1][2]]
    ELSE IF Has(registry, trial)
         THEN [raised |-> "none", run |-> Get(registry, trial)]
         ELSE [raised |-> "KeyError", run |-> 0]

\* --------------------------------------------------------- log_trial_start
\* variant: the early return of the shared policy is missing
StartNeverReturnsEarly(multirun, registry) == FALSE

\* shared policy: a start with a non-empty registry returns at once
StartReturnsEarly(multirun, registry) == ~multirun /\ registry # <<>>
\* variant: a restart leaves the replaced run open
StartNeverClosesOld(multirun, registry, trial) == FALSE

\* per-trial policy: a start for a registered trial closes its run first
StartClosesOld(multirun, registry, trial) == multirun /\ Has(registry, trial)

\* the hyperparameters log_trial_start hands to _log_hparams
StartHparams(trial) ==
    SelectSeq(flatten_dict(evaluated_params(trial), "/"),
              LAMBDA p : isinstance(p[2], VALID_SUMMARY_TYPES))

log_trial_start(trial) ==
    /\ op' = "log_trial_start"
    /\ arg_trial' = trial
    /\ result_in' = <<>>
    /\ result_out' = <<>>
    /\ raised' = "none"
    /\ ordered' = (ordered /\ phase[trial] \in {"uncreated", "closed"})
    /\ phase' = [phase EXCEPT ![trial] = "active"]
    /\ UNCHANGED <<as_multirun, metrics, scrub_vars, db_vars>>
    /\ IF StartReturnsEarly(as_multirun, trial_run)
       THEN /\ calls' = <<>>
            /\ UNCHANGED <<trial_run, runs>>
       ELSE LET closing == StartClosesOld(as_multirun, trial_run, trial)
                old == IF closing THEN Get(trial_run, trial) ELSE 0
                run == Len(runs) + 1
                closed_runs == IF closing
                               THEN [runs EXCEPT ![old].closes = @ + 1]
                               ELSE runs
                created == [NewRun EXCEPT !.trial_id =
                               IF as_multirun THEN trial_id(trial) ELSE None]
                tagging == evaluated_params(trial) # <<>>
                hp == _log_hparams(StartHparams(trial))
            IN /\ Len(runs) < MaxRuns
               /\ closing => runs[old].closes < MaxCloses
               /\ trial_run' = Put(trial_run, trial, run)
               /\ runs' = Append(closed_runs,
                                 IF tagging
                                 THEN [created EXCEPT !.hparams = Dict(hp.scrubbed)]
                                 ELSE created)
               /\ calls' =
                    (IF closing THEN <<Call("close", old)>> ELSE <<>>)
                    \o <<Call("init_logdir", 0), Call("Run", run)>>
                    \o (IF as_multirun
                        THEN <<SetItem(run, "trial_id", trial_id(trial))>> ELSE <<>>)
                    \o (IF tagging /\ hp.removed # <<>>
                        THEN <<Call("logger.info", 0)>> ELSE <<>>)
                    \o (IF tagging
                        THEN <<SetItem(run, "hparams", Dict(hp.scrubbed))>> ELSE <<>>)

\* -------------------------------------------------------- log_trial_result
\* the result mappings the orchestrator reports: each is built of a
\* timesteps_total part, a training_iteration part, a body of metrics and
\* bookkeeping fields, and a context part
TimestepsPart(ts) ==
    CASE ts = "absent" -> <<>>
      [] ts = "none" -> << <<TIMESTEPS_TOTAL, None>> >>
      [] ts = "zero" -> << <<TIMESTEPS_TOTAL, PyInt(0)>> >>
      [] OTHER -> << <<TIMESTEPS_TOTAL, PyInt(100)>> >>
IterationPart(ti) ==
    IF ti = "absent" THEN <<>> ELSE << <<TRAINING_ITERATION, PyInt(5)>> >>
ContextPart(ctx) ==
    IF ctx = "absent" THEN <<>>
    ELSE << <<"context", Dict(<< <<"subset", PyStr(8)>> >>)>> >>
Body(b) ==
    CASE b = 1 -> << <<"loss", PyFloat(2)>>,
                     <<"config", Dict(<< <<"lr", PyFloat(1)>> >>)>>,
                     <<"pid", PyInt(123)>> >>
      [] b = 2 -> << <<"acc", NaN>>,
                     <<"loss", Val("np.float32", 3)>>,
                     <<"timestamp", PyInt(17)>>,
                     <<TIME_TOTAL_S, PyFloat(42)>> >>
      [] OTHER -> << <<"a", Dict(<< <<"b", PyFloat(10)>>, <<"c", NaN>> >>)>>,
                     <<"acc", PyFloat(9)>>,
                     <<"hist", PyList(3)>>,
                     <<"note", PyStr(6)>>,
                     <<"done", Val("bool", 1)>>,
                     <<"epoch", PyInt(1)>> >>
\* <<timesteps_total, training_iteration, body, context>> of each reported result
ResultShapes ==
    { <<"absent", "present", 1, "absent">>,
      <<"positive", "present", 2, "absent">>,
      <<"absent", "present", 1, "present">>,
      <<"positive", "present", 2, "present">>,
      <<"zero", "present", 1, "present">>,
      <<"zero", "present", 3, "absent">>,
      <<"none", "present", 3, "present">>,
      <<"positive", "absent", 3, "present">>,
      <<"zero", "absent", 2, "present">>,
      <<"absent", "absent", 1, "absent">>,
      <<"none", "present", 2, "absent">>,
      <<"absent", "present", 3, "present">> }
Results ==
    { TimestepsPart(s[1]) \o IterationPart(s[2]) \o Body(s[3]) \o ContextPart(s[4]) :
        s \in ResultShapes }

\* the keys log_trial_result deletes from its copy
NOT_LOGGED == <<"config", "pid", "timestamp", TIME_TOTAL_S, TRAINING_ITERATION>>
PATH == "ray/tune"

\* step = result.get(TIMESTEPS_TOTAL) or result[TRAINING_ITERATION]
ResultStep(result) ==
    LET ts == IF Has(result, TIMESTEPS_TOTAL) THEN Get(result, TIMESTEPS_TOTAL) ELSE None
    IN IF Truthy(ts) THEN [raised |-> "none", value |-> ts]
       ELSE IF Has(result, TRAINING_ITERATION)
            THEN [raised |-> "none", value |-> Get(result, TRAINING_ITERATION)]
            ELSE [raised |-> "KeyError", value |-> None]

\* variant: the NaN test is missing
LoggableIgnoresNaN(value) == isinstance(value, VALID_SUMMARY_TYPES)

\* the test both branches apply before they call track
Loggable(value) == isinstance(value, VALID_SUMMARY_TYPES) /\ ~np_isnan(value)

\* the loop over the configured metrics; env holds the locals it reads
RECURSIVE TrackConfigured(_, _)
TrackConfigured(ms, env) ==
    IF ms = <<>> THEN [raised |-> "none", calls |-> <<>>]
    ELSE LET metric == Head(ms)
             full_attr == PATH \o "/" \o metric
         IN IF ~Has(env.flat_result, metric)
            THEN [raised |-> "KeyError", calls |-> <<>>]
            ELSE LET value == Get(env.flat_result, metric)
                     here == IF Loggable(value)
                             THEN IF Has(env.tmp_result, metric)
                                  THEN <<Track(env.run, Get(env.tmp_result, metric),
                                               env.epoch, full_attr, env.step, env.context)>>
                                  ELSE <<[Call("logger.warning", 0) EXCEPT !.name = metric]>>
                             ELSE <<>>
                     rest == TrackConfigured(Tail(ms), env)
                 IN [raised |-> rest.raised, calls |-> here \o rest.calls]

\* the loop over every flattened key when no metric is configured
TrackEverything(env) ==
    LET loggable == SelectSeq(env.flat_result, LAMBDA p : Loggable(p[2]))
    IN [raised |-> "none",
        calls |-> [i \in DOMAIN loggable |->
                     Track(env.run, loggable[i][2], env.epoch,
                           PATH \o "/" \o loggable[i][1], env.step, env.context)]]

\* variant: the trial id is never put into the context
InjectTrialNever(multirun, context, trial) == context

\* shared policy: context["trial"] = trial.trial_id
InjectTrial(multirun, context, trial) ==
    IF multirun THEN context
    ELSE Dict(Put(context.items, "trial", trial_id(trial)))

\* what one call of log_trial_result does: the exception it raises, the
\* backend calls it issues and the caller's mapping afterwards.  result.copy()
\* is shallow, so the context popped from the copy is the object the caller's
\* mapping holds and an item assigned to it shows in the caller's mapping.
ResultOutcome(multirun, configured, registry, trial, result) ==
    LET tmp_result == result
        step == ResultStep(result)
        trimmed == DelAll(tmp_result, NOT_LOGGED)
        popped_context == Pop(trimmed, "context")
        popped_epoch == Pop(popped_context.rest, "epoch")
        found == _get_trial_run(multirun, registry, trial)
        context == InjectTrial(multirun, popped_context.value, trial)
        env == [run |-> found.run, step |-> step.value, epoch |-> popped_epoch.value,
                context |-> context, tmp_result |-> popped_epoch.rest,
                flat_result |-> flatten_dict(popped_epoch.rest, "/")]
        tracked == IF configured # <<>> THEN TrackConfigured(configured, env)
                   ELSE TrackEverything(env)
    IN IF step.raised # "none"
       THEN [raised |-> step.raised, calls |-> <<>>, result |-> result]
       ELSE IF found.raised # "none"
       THEN [raised |-> found.raised, calls |-> <<>>, result |-> result]
       ELSE IF ~multirun /\ popped_context.value.ty # "dict"
       THEN [raised |-> "TypeError", calls |-> <<>>, result |-> result]
       ELSE [raised |-> tracked.raised, calls |-> tracked.calls,
             result |-> IF multirun THEN result ELSE Put(result, "context", context)]

log_trial_result(trial, result) ==
    \E out \in {ResultOutcome(as_multirun, metrics, trial_run, trial, result)} :
       /\ op' = "log_trial_result"
       /\ arg_trial' = trial
       /\ result_in' = result
       /\ result_out' = out.result
       /\ raised' = out.raised
       /\ calls' = out.calls
       /\ ordered' = (ordered /\ phase[trial] = "active")
       /\ UNCHANGED <<as_multirun, metrics, trial_run, runs, phase, scrub_vars, db_vars>>

\* ----------------------------------------------------------- log_trial_end
\* variant: the entry of the closed run is deleted from the registry
LogTrialEndRemovesEntry(trial) ==
    LET found == _get_trial_run(as_multirun, trial_run, trial)
    IN /\ op' = "log_trial_end"
       /\ arg_trial' = trial
       /\ result_in' = <<>>
       /\ result_out' = <<>>
       /\ raised' = found.raised
       /\ ordered' = (ordered /\ phase[trial] = "active")
       /\ phase' = [phase EXCEPT ![trial] = "closed"]
       /\ UNCHANGED <<as_multirun, metrics, scrub_vars, db_vars>>
       /\ IF found.raised # "none"
          THEN /\ calls' = <<>>
               /\ UNCHANGED <<runs, trial_run>>
          ELSE /\ runs[found.run].closes < MaxCloses
               /\ runs' = [runs EXCEPT ![found.run].closes = @ + 1]
               /\ trial_run' = SelectSeq(trial_run, LAMBDA e : e[2] # found.run)
               /\ calls' = <<Call("close", found.run)>>

log_trial_end(trial) ==
    LET found == _get_trial_run(as_multirun, trial_run, trial)
    IN /\ op' = "log_trial_end"
       /\ arg_trial' = trial
       /\ result_in' = <<>>
       /\ result_out' = <<>>
       /\ raised' = found.raised
       /\ ordered' = (ordered /\ phase[trial] = "active")
       /\ phase' = [phase EXCEPT ![trial] = "closed"]
       /\ UNCHANGED <<as_multirun, metrics, trial_run, scrub_vars, db_vars>>
       /\ IF found.raised # "none"
          THEN /\ calls' = <<>>
               /\ UNCHANGED runs
          ELSE /\ runs[found.run].closes < MaxCloses
               /\ runs' = [runs EXCEPT ![found.run].closes = @ + 1]
               /\ calls' = <<Call("close", found.run)>>

Next ==
    \/ \E trial \in Trials : log_trial_start(trial)
    \/ \E trial \in Trials, result \in Results : log_trial_result(trial, result)
    \/ \E trial \in Trials : log_trial_end(trial)

Spec == Init /\ [][Next]_vars

\* a callback just constructed with default options, no handler called
AimIdle ==
    /\ as_multirun = FALSE
    /\ metrics = <<>>
    /\ trial_run = <<>>
    /\ runs = <<>>
    /\ phase = [t \in Trials |-> "uncreated"]
    /\ ordered = TRUE
    /\ op = "__init__"
    /\ arg_trial = 0
    /\ result_in = <<>>
    /\ result_out = <<>>
    /\ raised = "none"
    /\ calls = <<>>

\* ------------------------------------------- _log_hparams, called directly
\* the hyperparameter values a search space can hold: one of each primitive
\* type, of each numpy type and of two other types, bare or one level down
HparamLeaves ==
    { PyStr(7), Val("bool", 1), PyInt(3), PyFloat(1), PyList(2), None,
      Val("np.bool8", 1), Val("np.float32", 5), Val("np.float64", 9),
      Val("np.int32", 6), Val("np.int64", 4),
      Val("object", 0), Val("np.ndarray", 3) }
HparamValues == HparamLeaves \cup { Dict(<< <<"x", leaf>> >>) : leaf \in HparamLeaves }
ParamKey(i) == "p" \o ToString(i)
HparamInputs ==
    UNION { { [i \in 1..n |-> <<ParamKey(i), f[i]>>] : f \in [1..n -> HparamValues] } :
            n \in 0..MaxParams }

ScrubInit ==
    /\ AimIdle
    /\ ReportIdle
    /\ hparams_in \in HparamInputs
    /\ hparams_scrubbed = <<>>
    /\ hparams_removed = <<>>
    /\ scrub_pc = "input"

\* _log_hparams(trial, hparams_in)
Scrub ==
    /\ scrub_pc = "input"
    /\ \E out \in {_log_hparams(hparams_in)} :
          /\ hparams_scrubbed' = out.scrubbed
          /\ hparams_removed' = out.removed
    /\ scrub_pc' = "scrubbed"
    /\ UNCHANGED <<hparams_in, aim_vars, db_vars>>

\* _log_hparams(trial, scrubbed_params): the snapshot is scrubbed again
Rescrub ==
    /\ scrub_pc = "scrubbed"
    /\ hparams_in' = hparams_scrubbed
    /\ \E out \in {_log_hparams(hparams_scrubbed)} :
          /\ hparams_scrubbed' = out.scrubbed
          /\ hparams_removed' = out.removed
    /\ scrub_pc' = "rescrubbed"
    /\ UNCHANGED <<aim_vars, db_vars>>

ScrubNext == Scrub \/ Rescrub

ScrubSpec == ScrubInit /\ [][ScrubNext]_vars

\* ------------------------------------------------ DBReporter.report_result
\* `a or b`
Or(a, b) == IF Truthy(a) THEN a ELSE b
\* dict.get(key, default)
GetOr(d, key, default) == IF Has(d, key) THEN Get(d, key) ELSE default

\* the attributes of a Result and the entries of a Test that report_result
\* reads; attributes it reads with `or` come unset (None) or set
ReportResults ==
    { << <<"status", status>>,
         <<"results", Dict(<< <<"passed", PyInt(1)>> >>)>>,
         <<"cluster_url", PyStr(11)>>,
         <<"cluster_id", None>>,
         <<"wheels_url", PyStr(12)>>,
         <<"buildkite_url", None>>,
         <<"buildkite_job_id", PyStr(13)>>,
         <<"runtime", runtime>>,
         <<"stable", Val("bool", 1)>>,
         <<"return_code", PyInt(0)>>,
         <<"smoke_test", Val("bool", 0)>>,
         <<"prometheus_metrics", prometheus_metrics>>,
         <<"extra_tags", None>> >> :
        status \in {None, PyStr(1)},
        runtime \in {None, PyFloat(0), PyFloat(120)},
        prometheus_metrics \in {None, Dict(<<>>),
                                Dict(<< <<"cpu", PyList(3)>>, <<"mem", PyList(3)>> >>)} }
ReportTests ==
    { <<>>,
      << <<"name", PyStr(21)>>, <<"group", PyStr(22)>>,
         <<"team", PyStr(23)>>, <<"frequency", PyStr(24)>> >> }
\* time.time(), in seconds
ReportTimes == {1, 2}

\* the record report_result builds
ResultJson(test, result, now) ==
    << <<"_table", PyStr(10)>>,
       <<"report_timestamp_ms", PyInt(now * 1000)>>,
       <<"status", Or(Get(result, "status"), PyStr(0))>>,
       <<"results", Or(Get(result, "results"), Dict(<<>>))>>,
       <<"name", GetOr(test, "name", PyStr(0))>>,
       <<"group", GetOr(test, "group", PyStr(0))>>,
       <<"team", GetOr(test, "team", PyStr(0))>>,
       <<"frequency", GetOr(test, "frequency", PyStr(0))>>,
       <<"cluster_url", Or(Get(result, "cluster_url"), PyStr(0))>>,
       <<"cluster_id", Or(Get(result, "cluster_id"), PyStr(0))>>,
       <<"wheel_url", Or(Get(result, "wheels_url"), PyStr(0))>>,
       <<"buildkite_url", Or(Get(result, "buildkite_url"), PyStr(0))>>,
       <<"buildkite_job_id", Or(Get(result, "buildkite_job_id"), PyStr(0))>>,
       <<"runtime", Or(Get(result, "runtime"), PyFloat(-10))>>,
       <<"stable", Get(result, "stable")>>,
       <<"return_code", Get(result, "return_code")>>,
       <<"smoke_test", Get(result, "smoke_test")>>,
       <<"prometheus_metrics", Or(Get(result, "prometheus_metrics"), Dict(<<>>))>>,
       <<"extra_tags", Or(Get(result, "extra_tags"), Dict(<<>>))>> >>

\* json.dumps(record): the text, held as the record it encodes
json_dumps(record) == [json |-> record]

\* what a put_record call can do: return, or raise one of botocore's errors
DeliveryOutcomes == {"none", "ClientError", "EndpointConnectionError"}
\* the classes `except Exception` catches among them
ExceptException == {"ClientError", "EndpointConnectionError"}

\* a firehose.put_record call and the exception it raised
PutRecord(record, outcome) ==
    [stream |-> "ray-ci-results", data |-> json_dumps(record), raised |-> outcome]

\* variant: the retry sends the record as it was
RetryRecordKeepsMetrics(result_json) == result_json

\* result_json.pop("prometheus_metrics", None)
RetryRecord(result_json) == Pop(result_json, "prometheus_metrics").rest

\* one call of report_result; first_outcome and second_outcome are what the
\* first and the second put_record do
report_result(test, result, now, first_outcome, second_outcome) ==
    LET result_json == ResultJson(test, result, now)
        first == PutRecord(result_json, first_outcome)
        second == PutRecord(RetryRecord(result_json), second_outcome)
    IN /\ UNCHANGED <<aim_vars, scrub_vars>>
       /\ IF first_outcome = "none"
          THEN /\ put_records' = <<first>>
               /\ report_log' = <<"info", "debug", "info">>
               /\ report_outcome' = "returned"
          ELSE IF first_outcome \notin ExceptException
          THEN /\ put_records' = <<first>>
               /\ report_log' = <<"info", "debug">>
               /\ report_outcome' = first_outcome
          ELSE /\ put_records' = <<first, second>>
               /\ IF second_outcome = "none"
                  THEN /\ report_log' = <<"info", "debug", "warning">>
                       /\ report_outcome' = "returned"
                  ELSE IF second_outcome \in ExceptException
                  THEN /\ report_log' = <<"info", "debug", "warning", "exception">>
                       /\ report_outcome' = "returned"
                  ELSE /\ report_log' = <<"info", "debug", "warning">>
                       /\ report_outcome' = second_outcome

ReportInit ==
    /\ AimIdle
    /\ ScrubIdle
    /\ ReportIdle

ReportNext ==
    \E test \in ReportTests, result \in ReportResults, now \in ReportTimes,
       first_outcome \in DeliveryOutcomes, second_outcome \in DeliveryOutcomes :
        report_result(test, result, now, first_outcome, second_outcome)

ReportSpec == ReportInit /\ [][ReportNext]_vars

\* ===================================================================== claims
IsTrack(c) == c.op = "track"
IsHparamTag(c) == c.op = "setitem" /\ c.name = "hparams"
Resolved(trial) == _get_trial_run(as_multirun, trial_run, trial)

\* C1: when every trial's events follow start, result*, end, no track call
\* and no hyperparameter tag is issued to a run that has been closed.
C1_NoOperationOnClosedRun ==
    ordered =>
        \A i \in DOMAIN calls :
            (IsTrack(calls[i]) \/ IsHparamTag(calls[i])) => runs[calls[i].run].closes = 0

\* C2: under the shared policy the registry holds at most one entry, at most
\* one run was ever created, and every trial resolves to that run.
C2_SharedSingleRun ==
    ~as_multirun =>
        /\ Len(trial_run) <= 1
        /\ Len(runs) <= 1
        /\ trial_run # <<>> =>
              /\ Len(runs) = 1
              /\ \A t \in Trials : Resolved(t) = [raised |-> "none", run |-> 1]

C2_Witness ==
    /\ ~as_multirun
    /\ Len(trial_run) = 1
    /\ \A t \in Trials : phase[t] # "uncreated"
    /\ \E t \in Trials : phase[t] = "closed"
    /\ op = "log_trial_start"
    /\ arg_trial # trial_run[1][1]

\* C3: under the per-trial policy the registry has one entry per trial, no
\* run is the value of two entries, and two distinct started trials resolve
\* to two different runs.
C3_PerTrialDistinctRuns ==
    as_multirun =>
        /\ \A i, j \in DOMAIN trial_run :
              (trial_run[i][1] = trial_run[j][1] \/ trial_run[i][2] = trial_run[j][2])
                  => i = j
        /\ \A t1, t2 \in Keys(trial_run) :
              t1 # t2 =>
                  /\ Resolved(t1).raised = "none"
                  /\ Resolved(t2).raised = "none"
                  /\ Resolved(t1).run # Resolved(t2).run

C3_Witness ==
    /\ as_multirun
    /\ \E t1, t2 \in Keys(trial_run) : t1 # t2 /\ Resolved(t1).run # Resolved(t2).run

\* C4: under the per-trial policy a start for a trial that was started and
\* not ended closes the trial's run exactly once, before the new run is
\* created and installed, and the entry afterwards is a different, open run.
C4_RestartClosesOldRunFirst ==
    [][ (as_multirun /\ op' = "log_trial_start" /\ phase[arg_trial'] = "active") =>
          LET old == Get(trial_run, arg_trial')
              new == Get(trial_run', arg_trial')
          IN /\ Len(calls') >= 3
             /\ calls'[1] = Call("close", old)
             /\ \A i \in DOMAIN calls' : calls'[i].op = "close" => i = 1
             /\ \E i \in DOMAIN calls' : i > 1 /\ calls'[i] = Call("Run", new)
             /\ runs[old].closes = 0
             /\ runs'[old].closes = 1
             /\ new # old
             /\ runs'[new].closes = 0 ]_vars

C4_Witness ==
    /\ as_multirun
    /\ op = "log_trial_start"
    /\ calls # <<>>
    /\ calls[1].op = "close"
    /\ runs[calls[1].run].closes = 1
    /\ Get(trial_run, arg_trial) # calls[1].run

\* C5: after log_trial_start(t) returns, the run that resolution returns for
\* t is open, under both policies and whatever events came before; stated
\* here for the histories in which every trial's events follow start,
\* result*, end, which are among those the claim covers.
C5_StartEstablishesOpenRun ==
    (ordered /\ op = "log_trial_start" /\ raised = "none") =>
        /\ Resolved(arg_trial).raised = "none"
        /\ runs[Resolved(arg_trial).run].closes = 0

\* the snapshot the backend holds for a run created by `trial`
SnapshotOf(trial) ==
    IF trial % 2 = 1
    THEN Dict(<< <<"lr", PyFloat(trial)>>,
                 <<"opt/momentum", PyFloat(9)>>,
                 <<"seed", PyInt(4)>> >>)
    ELSE None

\* C6: under the shared policy a start with a non-empty registry creates no
\* run, leaves registry and runs as they are, makes no collaborator call (no
\* init_logdir, no tag), and the shared run's hyperparameter snapshot is
\* always that of the first started trial.
C6_SharedStartIsNoOp ==
    /\ [][ (~as_multirun /\ trial_run # <<>> /\ op' = "log_trial_start") =>
             (calls' = <<>> /\ trial_run' = trial_run /\ runs' = runs) ]_vars
    /\ []( (~as_multirun /\ trial_run # <<>>) =>
             runs[trial_run[1][2]].hparams = SnapshotOf(trial_run[1][1]) )

C6_Witness ==
    /\ ~as_multirun
    /\ op = "log_trial_start"
    /\ calls = <<>>
    /\ trial_run # <<>>
    /\ arg_trial # trial_run[1][1]
    /\ evaluated_params(arg_trial) # <<>>
    /\ runs[1].hparams = SnapshotOf(trial_run[1][1])

\* C7: every observation pushed by log_trial_result has step equal to the
\* result's timesteps_total whenever that field is present and non-null, and
\* to training_iteration otherwise.
C7_StepIsTimestepsTotalWhenPresent ==
    op = "log_trial_result" =>
        \A i \in DOMAIN calls :
            IsTrack(calls[i]) =>
                calls[i].step =
                    IF Has(result_in, TIMESTEPS_TOTAL)
                       /\ Get(result_in, TIMESTEPS_TOTAL).ty # "NoneType"
                    THEN Get(result_in, TIMESTEPS_TOTAL)
                    ELSE Get(result_in, TRAINING_ITERATION)

\* C8: after log_trial_result returns or raises, the caller's result mapping
\* has the keys and values it had before, nested context included.
C8_CallerResultUnchanged ==
    op = "log_trial_result" => result_out = result_in

\* the flattened trimmed result of the last call
TrimmedFlat ==
    flatten_dict(DelAll(result_in, NOT_LOGGED \o <<"context", "epoch">>), "/")

\* C9: with no allow-list, the default (shared) policy, the trial started and
\* a result that has training_iteration and no context, log_trial_result
\* returns normally and pushes exactly one observation 'ray/tune/<key>' for
\* each flattened key whose value is scalar-numeric and not NaN, with that
\* value and the resolved step, and none for any other key.
C9_EveryScalarMetricObserved ==
    ( /\ op = "log_trial_result"
      /\ metrics = <<>>
      /\ ~as_multirun
      /\ phase[arg_trial] = "active"
      /\ Has(result_in, TRAINING_ITERATION)
      /\ ~Has(result_in, "context") ) =>
        /\ raised = "none"
        /\ \A i \in DOMAIN TrimmedFlat :
              Loggable(TrimmedFlat[i][2]) =>
                  Cardinality({ j \in DOMAIN calls :
                      /\ IsTrack(calls[j])
                      /\ calls[j].name = "ray/tune/" \o TrimmedFlat[i][1]
                      /\ calls[j].value = TrimmedFlat[i][2]
                      /\ calls[j].step = ResultStep(result_in).value }) = 1
        /\ \A j \in DOMAIN calls :
              IsTrack(calls[j]) =>
                  \E i \in DOMAIN TrimmedFlat :
                      /\ Loggable(TrimmedFlat[i][2])
                      /\ calls[j].name = "ray/tune/" \o TrimmedFlat[i][1]

\* C10: with an allow-list, a configured metric absent from the result is
\* not fatal: log_trial_result raises nothing and pushes no observation for
\* that name.
C10_AbsentMetricIsNotFatal ==
    ( /\ op = "log_trial_result"
      /\ metrics # <<>>
      /\ phase[arg_trial] = "active"
      /\ Resolved(arg_trial).raised = "none"
      /\ ResultStep(result_in).raised = "none"
      /\ (as_multirun \/ Has(result_in, "context"))
      /\ \E i \in DOMAIN metrics : ~Has(TrimmedFlat, metrics[i]) ) =>
        /\ raised = "none"
        /\ \A j \in DOMAIN calls, i \in DOMAIN metrics :
              (IsTrack(calls[j]) /\ ~Has(TrimmedFlat, metrics[i]))
                  => calls[j].name # "ray/tune/" \o metrics[i]

\* the registry has no run for `trial`: it is empty (shared policy) or has
\* no entry keyed by the trial (per-trial policy)
NoEntry(trial) == IF as_multirun THEN ~Has(trial_run, trial) ELSE trial_run = <<>>

\* C11: no track call of log_trial_result carries a NaN value, with or
\* without an allow-list, and a NaN metric causes no error: a call whose step
\* and run resolve, whose context can take the trial id and whose configured
\* metrics are all reported returns normally.
C11_NaNNeverObserved ==
    op = "log_trial_result" =>
        /\ \A i \in DOMAIN calls : IsTrack(calls[i]) => ~calls[i].value.nan
        /\ ( /\ ResultStep(result_in).raised = "none"
             /\ ~NoEntry(arg_trial)
             /\ (as_multirun \/ Has(result_in, "context"))
             /\ \A i \in DOMAIN metrics : Has(TrimmedFlat, metrics[i]) )
           => raised = "none"

C11_Witness ==
    /\ op = "log_trial_result"
    /\ raised = "none"
    /\ metrics # <<>>
    /\ \E i \in DOMAIN metrics :
          Has(TrimmedFlat, metrics[i]) /\ Get(TrimmedFlat, metrics[i]).nan
    /\ \E i \in DOMAIN calls : IsTrack(calls[i])

\* C12: under the shared policy every observation pushed for trial t carries
\* a context whose "trial" entry is t's trial id.
C12_SharedObservationsCarryTrial ==
    (~as_multirun /\ op = "log_trial_result") =>
        \A i \in DOMAIN calls :
            IsTrack(calls[i]) =>
                /\ calls[i].context.ty = "dict"
                /\ Has(calls[i].context.items, "trial")
                /\ Get(calls[i].context.items, "trial") = trial_id(arg_trial)

C12_Witness ==
    /\ ~as_multirun
    /\ op = "log_trial_result"
    /\ trial_run # <<>>
    /\ arg_trial # trial_run[1][1]
    /\ \E i \in DOMAIN calls :
          /\ IsTrack(calls[i])
          /\ Get(calls[i].context.items, "trial") = trial_id(arg_trial)

\* C13: log_trial_result or log_trial_end for a trial the registry has no
\* run for raises, pushes no observation, closes no run and leaves the
\* registry as it is.
C13_ResolutionBeforeCreationRaises ==
    [][ (op' \in {"log_trial_result", "log_trial_end"} /\ NoEntry(arg_trial')) =>
           /\ raised' # "none"
           /\ calls' = <<>>
           /\ runs' = runs
           /\ trial_run' = trial_run ]_vars

C13_Witness ==
    /\ as_multirun
    /\ op = "log_trial_result"
    /\ trial_run # <<>>
    /\ ~Has(trial_run, arg_trial)
    /\ ResultStep(result_in).raised = "none"
    /\ raised = "KeyError"
    /\ calls = <<>>

\* C18: with an allow-list, every configured metric that is in the flattened
\* result with a scalar-numeric, non-NaN value yields exactly one observation
\* 'ray/tune/<metric>' with that value, for top-level keys and for
\* slash-joined paths into a nested result alike.
C18_ConfiguredMetricObservedOnce ==
    (op = "log_trial_result" /\ metrics # <<>> /\ raised = "none") =>
        \A i \in DOMAIN metrics :
            (Has(TrimmedFlat, metrics[i]) /\ Loggable(Get(TrimmedFlat, metrics[i]))) =>
                Cardinality({ j \in DOMAIN calls :
                    /\ IsTrack(calls[j])
                    /\ calls[j].name = "ray/tune/" \o metrics[i]
                    /\ calls[j].value = Get(TrimmedFlat, metrics[i]) }) = 1

\* C19: when every trial's events follow start, result*, end and no started
\* trial is left un-ended, every run that was ever created has been closed.
C19_AllRunsClosedWhenTrialsDone ==
    (ordered /\ \A t \in Trials : phase[t] # "active") =>
        \A r \in DOMAIN runs : runs[r].closes >= 1

C19_Witness ==
    /\ ordered
    /\ \A t \in Trials : phase[t] # "active"
    /\ Len(runs) >= 2
    /\ \A r \in DOMAIN runs : runs[r].closes >= 1

\* C20: log_trial_result and log_trial_end leave the registry as it is, the
\* set of registered trials never shrinks, and after log_trial_end(t) the
\* entry that resolves for t still maps to the run just closed.
C20_OnlyStartChangesRegistry ==
    [][ /\ op' \in {"log_trial_result", "log_trial_end"} => trial_run' = trial_run
        /\ Keys(trial_run) \subseteq Keys(trial_run')
        /\ (op' = "log_trial_end" /\ raised' = "none") =>
              /\ ~NoEntry(arg_trial')
              /\ LET entry == IF as_multirun THEN Get(trial_run', arg_trial')
                              ELSE trial_run'[1][2]
                 IN /\ calls' = <<Call("close", entry)>>
                    /\ runs'[entry].closes = runs[entry].closes + 1 ]_vars

C20_Witness ==
    /\ as_multirun
    /\ op = "log_trial_end"
    /\ raised = "none"
    /\ Has(trial_run, arg_trial)
    /\ calls = <<Call("close", Get(trial_run, arg_trial))>>
    /\ runs[Get(trial_run, arg_trial)].closes = 1

\* C14: when log_trial_start tags a run with the hyperparameters of a trial,
\* the snapshot holds every flattened hyperparameter of a primitive type
\* unchanged, every one of a numpy type converted to its native form, and
\* leaves out only the others.
C14_SnapshotKeepsPrimitives ==
    op = "log_trial_start" =>
        \A c \in DOMAIN calls :
            IsHparamTag(calls[c]) =>
                LET snapshot == calls[c].value.items
                    flat == flatten_dict(evaluated_params(arg_trial), "/")
                IN \A i \in DOMAIN flat :
                      LET key == flat[i][1]
                          value == flat[i][2]
                      IN /\ value.ty \in VALID_HPARAMS =>
                              (Has(snapshot, key) /\ Get(snapshot, key) = value)
                         /\ value.ty \in VALID_NP_HPARAMS =>
                              (Has(snapshot, key) /\ Get(snapshot, key) = tolist(value))
                         /\ value.ty \notin (VALID_HPARAMS \cup VALID_NP_HPARAMS) =>
                              ~Has(snapshot, key)

\* the types the backend stores as they are
PrimitiveTypes == {"str", "bool", "int", "float", "list", "NoneType"}

\* C15: the scrubber puts every key of its flattened input in exactly one of
\* scrubbed and removed, and every value in scrubbed has a primitive type, so
\* no numpy type is left in it, np.float64 (a float subclass) included.
C15_ScrubPartitions ==
    scrub_pc = "scrubbed" =>
        LET flat == flatten_dict(hparams_in, "/")
        IN /\ Keys(hparams_scrubbed) \cup Keys(hparams_removed) = Keys(flat)
           /\ Keys(hparams_scrubbed) \cap Keys(hparams_removed) = {}
           /\ Len(hparams_scrubbed) + Len(hparams_removed) = Len(flat)
           /\ \A i \in DOMAIN hparams_scrubbed :
                 hparams_scrubbed[i][2].ty \in PrimitiveTypes

C15_Witness ==
    /\ scrub_pc = "scrubbed"
    /\ \E i \in DOMAIN hparams_in : hparams_in[i][2].ty = "np.float64"
    /\ hparams_removed # <<>>
    /\ Len(hparams_scrubbed) >= 1

\* C16: scrubbing the scrubbed output again returns it unchanged, with
\* nothing removed.
C16_ScrubIdempotent ==
    scrub_pc = "rescrubbed" =>
        /\ hparams_scrubbed = hparams_in
        /\ hparams_removed = <<>>

C16_Witness ==
    /\ scrub_pc = "rescrubbed"
    /\ Len(hparams_scrubbed) = 2
    /\ Has(hparams_scrubbed, "p1/x")
    /\ \E i \in DOMAIN hparams_scrubbed : hparams_scrubbed[i][2].ty = "float"

\* C17: report_result makes at most two put_record calls; it makes the second
\* only if the first raised, with the first record less its
\* prometheus_metrics field and every other field equal; and it returns
\* normally whether the first call succeeds, only the second, or neither.
C17_ReportRetriesOnceWithoutMetrics ==
    report_outcome # "idle" =>
        /\ report_outcome = "returned"
        /\ Len(put_records) \in {1, 2}
        /\ Len(put_records) = 2 <=> put_records[1].raised # "none"
        /\ Len(put_records) = 2 =>
              LET first == put_records[1].data.json
                  second == put_records[2].data.json
              IN /\ Has(first, "prometheus_metrics")
                 /\ ~Has(second, "prometheus_metrics")
                 /\ Keys(second) = Keys(first) \ {"prometheus_metrics"}
                 /\ \A k \in Keys(second) : Get(second, k) = Get(first, k)

C17_Witness ==
    /\ report_outcome = "returned"
    /\ Len(put_records) = 2
    /\ put_records[1].raised # "none"
    /\ put_records[2].raised # "none"
    /\ Get(put_records[1].data.json, "prometheus_metrics").items # <<>>
    /\ ~Has(put_records[2].data.json, "prometheus_metrics")
====
